---- MODULE Spec2Model ----
(***************************************************************************)
(* Model of the module orchestration runtime of src/core.ts (class Core)   *)
(* and of the entry point src/unnamed/part_000 (class ModuleJS).            *)
(*                                                                         *)
(* The startup pipeline of Core.constructor is a chain of promise          *)
(* callbacks.  Every action below is one such callback, run to its next    *)
(* suspension point (an await, a timer, or its end).                       *)
(***************************************************************************)
EXTENDS Naturals, Sequences, FiniteSets

VARIABLES
    input,            \* the constructor's argument `config` (core.ts:61)
    config,           \* this.config (core.ts:40)
    modules,          \* the discovered module factories (core.ts:17-27)
    moduleInstances,  \* this.moduleInstances (core.ts:45): name -> instance
    state,            \* name -> moduleInstances[name].state (core.ts:268)
    pc,               \* position of the constructor's promise chain
    attempted,        \* allow-list names whose start() callback has run
    inFlight,         \* names whose prepare() was invoked and has not settled
    lastOutcome,      \* how the latest start() callback's try block ended
    criticalAt,       \* allow-list index whose prepare() threw a CriticalError
    renderCalls,      \* number of invocations of Renderer.render
    renderOutcome,    \* how Core.render() ended in the timer callback
    focusOutcome,     \* how the autofocus block of core.ts:85-90 ended
    resolveCalls,     \* number of calls of onReady (core.ts:95)
    rejectCalls,      \* number of calls of onFail (core.ts:104)
    isReady,          \* state of the promise this.isReady (core.ts:67)
    constructWarnings,\* the warnings logged by constructModules (core.ts:252)
    instanceKeys,     \* the keys of moduleInstances in the order of Object.values
    facadeFields,     \* own fields of the ModuleJS object
    facadeProto,      \* prototype of the ModuleJS object
    facadeConfig,     \* value of the ModuleJS object's field `configuration`
    facadeReady,      \* state of the promise ModuleJS.isReady (part_000:64)
    moduleRef,        \* the variable `Module` of exportAPI (part_000:75, 86)
    teardownLog       \* what the latest call of destroy() did, in order

\* the state of the ModuleJS object
facadeVars == <<facadeFields, facadeProto, facadeConfig, facadeReady,
                moduleRef, teardownLog>>

vars == <<input, config, modules, moduleInstances, state, pc, attempted,
          inFlight, lastOutcome, criticalAt, renderCalls, renderOutcome,
          focusOutcome, resolveCalls, rejectCalls, isReady,
          constructWarnings, instanceKeys, facadeVars>>

----------------------------------------------------------------------------
(* Bounds of the model                                                      *)

\* at most this many of the discovered modules have a throwing constructor
MaxBroken == 1

----------------------------------------------------------------------------
(* Program constants                                                        *)

\* core.ts:189-198
modulesToPrepare ==
    <<"Tools", "UI", "BlockManager", "Paste", "BlockSelection",
      "RectangleSelection", "CrossBlockSelection", "ReadOnly">>

\* the modules the core names: the allow-list, Renderer (core.ts:225),
\* Caret (core.ts:86) and API (part_000:103), in the order of their file names
ModuleOrder ==
    <<"API", "BlockManager", "BlockSelection", "Caret", "CrossBlockSelection",
      "Paste", "ReadOnly", "RectangleSelection", "Renderer", "Tools", "UI">>

ModuleNames == {ModuleOrder[i] : i \in 1..Len(ModuleOrder)}

\* names a second factory may carry as well (Module.displayName, core.ts:247)
DuplicateNames == {"Paste", "Renderer"}

----------------------------------------------------------------------------
(* Values a mount-target field can hold, and what the collaborators of      *)
(* ./utils and ./dom answer about them                                      *)

\* undefined, the id of an existing element, an id no element has, an
\* Element node, an object that is no Element, a number
Values == {"absent", "idExisting", "idMissing", "element", "plainObject", "number"}

\* JavaScript truthiness of a value of Values
truthy(v) == v # "absent"

\* _.isString
isString(v) == v \in {"idExisting", "idMissing"}

\* _.isObject
isObject(v) == v \in {"element", "plainObject"}

\* $.get(id): whether an element is found
domGet(v) == v = "idExisting"

\* $.isElement
isElement(v) == v = "element"

\* The constructor's argument: an object with the recognised fields, or a bare
\* value (a string id, or undefined)
Inputs ==
    [obj : {TRUE}, value : {"absent"},
     holderId : {"absent", "idExisting", "idMissing"}, holder : Values,
     data : BOOLEAN, autofocus : BOOLEAN]
    \cup
    [obj : {FALSE}, value : {"absent", "idExisting", "idMissing"},
     holderId : {"absent"}, holder : {"absent"},
     data : {FALSE}, autofocus : {FALSE}]

NoConfig == [holderId |-> "absent", holder |-> "absent",
             data |-> FALSE, autofocus |-> FALSE]

----------------------------------------------------------------------------
(* Core's synchronous methods                                               *)

\* set configuration(config), core.ts:113-133
configuration(c) ==
    IF c.obj
    THEN [holderId |-> c.holderId, holder |-> c.holder,
          data |-> c.data, autofocus |-> c.autofocus]
    ELSE [holderId |-> "absent", holder |-> c.value,
          data |-> FALSE, autofocus |-> FALSE]

\* validate() without its first check
validateNoExclusive(cfg) ==
    IF isString(cfg.holder) /\ ~domGet(cfg.holder) THEN "missing"
    ELSE IF truthy(cfg.holder) /\ isObject(cfg.holder) /\ ~isElement(cfg.holder)
    THEN "notElement"
    ELSE "ok"

\* validate(), core.ts:145-162: "ok", or the error it throws
validate(cfg) ==
    IF truthy(cfg.holderId) /\ truthy(cfg.holder) THEN "exclusive"
    ELSE IF isString(cfg.holder) /\ ~domGet(cfg.holder) THEN "missing"
    ELSE IF truthy(cfg.holder) /\ isObject(cfg.holder) /\ ~isElement(cfg.holder)
    THEN "notElement"
    ELSE "ok"

\* constructModules(), core.ts:231-255: the factories of mods[i..] are
\* constructed in order onto acc; a throwing constructor leaves acc as it is.
\* An instance is named by the index of its factory.
RECURSIVE constructFrom(_, _, _)
constructFrom(mods, i, acc) ==
    IF i > Len(mods) THEN acc
    ELSE IF mods[i].throws THEN constructFrom(mods, i + 1, acc)
    ELSE constructFrom(mods, i + 1,
             [n \in (DOMAIN acc) \cup {mods[i].displayName} |->
                 IF n = mods[i].displayName THEN i ELSE acc[n]])

\* constructModules() without its try/catch: the first throwing constructor
\* ends the forEach
constructModulesAbort(mods) ==
    LET firstThrow == IF \E i \in 1..Len(mods) : mods[i].throws
                      THEN CHOOSE i \in 1..Len(mods) :
                             /\ mods[i].throws
                             /\ \A j \in 1..(i - 1) : ~mods[j].throws
                      ELSE Len(mods) + 1
    IN  constructFrom(SubSeq(mods, 1, firstThrow - 1), 1, <<>>)

constructModules(mods) == constructFrom(mods, 1, <<>>)

\* the modules named by the warnings of core.ts:252, in the order logged:
\* one for every factory whose constructor throws
skippedWarnings(mods) ==
    LET thrown == SelectSeq(mods, LAMBDA f : f.throws)
    IN  [i \in 1..Len(thrown) |-> thrown[i].displayName]

\* the order of the keys of moduleInstances, that of Object.values
\* (part_000:78): a key is placed where it is first assigned (core.ts:247)
instanceOrder(mods) ==
    LET first(i) == /\ ~mods[i].throws
                    /\ \A j \in 1..(i - 1) :
                         mods[j].throws \/ mods[j].displayName # mods[i].displayName
        kept == SelectSeq([i \in 1..Len(mods) |-> i], first)
    IN  [k \in 1..Len(kept) |-> mods[kept[k]].displayName]

\* getModulesDiff() that does not skip the passed name
getModulesDiffAll(instances, name) ==
    [moduleName \in DOMAIN instances |-> instances[moduleName]]

\* getModulesDiff(name), core.ts:278-292
getModulesDiff(instances, name) ==
    [moduleName \in (DOMAIN instances) \ {name} |-> instances[moduleName]]

\* configureModules(), core.ts:262-271
configureModules(instances) ==
    [name \in DOMAIN instances |-> getModulesDiff(instances, name)]

----------------------------------------------------------------------------
(* The discovered factories: one per module file that exists, in file      *)
(* order, and possibly one more factory that carries a name again           *)

BaseFactories(missing, throwing) ==
    LET kept == SelectSeq(ModuleOrder, LAMBDA n : n \notin missing)
    IN  [i \in 1..Len(kept) |->
            [displayName |-> kept[i], throws |-> kept[i] \in throwing]]

\* the subsets of S with at most k elements
RECURSIVE SmallSubsets(_, _)
SmallSubsets(S, k) ==
    IF k = 0 THEN {{}}
    ELSE LET smaller == SmallSubsets(S, k - 1)
         IN  smaller \cup {p \cup {x} : p \in smaller, x \in S}

\* a factory that carries a name of DuplicateNames again, or none
ExtraFactories ==
    {<<>>} \cup { <<[displayName |-> d, throws |-> t]>> :
                     d \in DuplicateNames, t \in BOOLEAN }

\* every module file exists; at most MaxBroken of their constructors throw
Registries ==
    { BaseFactories({}, throwing) \o extra :
        throwing \in SmallSubsets(ModuleNames, MaxBroken),
        extra \in ExtraFactories }

----------------------------------------------------------------------------
(* Core.start(): the reduce chain of core.ts:200-218                        *)

\* start() that begins every prepare() without waiting for the one before
NextPrepareParallel(att, fl) ==
    IF Len(att) < Len(modulesToPrepare) THEN {Len(att) + 1} ELSE {}

\* the allow-list indices whose callback of the chain may run now: each
\* callback is chained by promise.then onto the one before (core.ts:201)
NextPrepare(att, fl) ==
    IF fl = {} /\ Len(att) < Len(modulesToPrepare) THEN {Len(att) + 1} ELSE {}

\* a catch block that swallows every error
prepareCatchSwallow(e) == "continue"

\* the catch block of core.ts:206-214 for a thrown e: a CriticalError is
\* thrown again, any other error is logged
prepareCatch(e) == IF e = "critical" THEN "rethrow" ELSE "continue"

\* a constructor that does not await start()
startSettledNoAwait(att, fl) == TRUE

\* `await this.start()` (core.ts:78) resumes when the whole chain has
\* resolved: every callback has run and no prepare() is in flight
startSettled(att, fl) == Len(att) = Len(modulesToPrepare) /\ fl = {}

IndexOf(name) == CHOOSE k \in 1..Len(modulesToPrepare) : modulesToPrepare[k] = name

----------------------------------------------------------------------------
(* The timer callback of core.ts:82-96, from the point where                *)
(* `await this.render()` has settled                                        *)

\* a callback that reports a failure through onFail and goes on to onReady
timerCallbackTailCaught(result, autofocus, focusOk) ==
    [pc |-> "ready", onReady |-> 1,
     onFail |-> IF result # "resolved" \/ (autofocus /\ ~focusOk) THEN 1 ELSE 0,
     focus |-> IF result = "resolved" /\ autofocus
               THEN (IF focusOk THEN "ok" ELSE "threw") ELSE "none"]

\* a rejected render and a throwing focus step leave the async callback by
\* an exception nothing catches: onReady (core.ts:95) is not reached
timerCallbackTail(result, autofocus, focusOk) ==
    IF result # "resolved"
    THEN [pc |-> "stalled", onReady |-> 0, onFail |-> 0, focus |-> "none"]
    ELSE IF ~autofocus
    THEN [pc |-> "ready", onReady |-> 1, onFail |-> 0, focus |-> "none"]
    ELSE IF ~focusOk
    THEN [pc |-> "stalled", onReady |-> 0, onFail |-> 0, focus |-> "threw"]
    ELSE [pc |-> "ready", onReady |-> 1, onFail |-> 0, focus |-> "ok"]

\* resolve / reject of the promise of core.ts:67-70: only the first call
\* settles it
settle(promise, how, calls) ==
    IF calls > 0 /\ promise = "pending" THEN how ELSE promise

----------------------------------------------------------------------------
(* State machine                                                            *)

Init ==
    /\ input \in Inputs
    /\ modules \in Registries
    /\ config = NoConfig
    /\ moduleInstances = <<>>
    /\ state = <<>>
    /\ pc = "created"
    /\ attempted = <<>>
    /\ inFlight = {}
    /\ lastOutcome = "none"
    /\ criticalAt = 0
    /\ renderCalls = 0
    /\ renderOutcome = "none"
    /\ focusOutcome = "none"
    /\ resolveCalls = 0
    /\ rejectCalls = 0
    /\ isReady = "pending"
    /\ constructWarnings = <<>>
    /\ instanceKeys = <<>>
    /\ facadeFields = {"isReady"}
    /\ facadeProto = "ModuleJS.prototype"
    /\ facadeConfig = NoConfig
    /\ facadeReady = "pending"
    /\ moduleRef = "held"
    /\ teardownLog = <<>>

\* core.ts:73-76: the setter, then validate()
Configure ==
    /\ pc = "created"
    /\ config' = configuration(input)
    /\ pc' = IF validate(config') = "ok" THEN "validated" ELSE "rejecting"
    /\ UNCHANGED <<input, modules, moduleInstances, state, attempted, inFlight,
                   lastOutcome, criticalAt, renderCalls, renderOutcome,
                   focusOutcome, resolveCalls, rejectCalls, isReady,
                   constructWarnings, instanceKeys, facadeVars>>

\* core.ts:77, init() of core.ts:170-180
InitModules ==
    /\ pc = "validated"
    /\ moduleInstances' = constructModules(modules)
    /\ constructWarnings' = skippedWarnings(modules)
    /\ instanceKeys' = instanceOrder(modules)
    /\ state' = configureModules(moduleInstances')
    /\ pc' = "starting"
    /\ UNCHANGED <<input, config, modules, attempted, inFlight, lastOutcome,
                   criticalAt, renderCalls, renderOutcome, focusOutcome,
                   resolveCalls, rejectCalls, isReady,
                   facadeVars>>

\* core.ts:201-205: the chain's callback for allow-list entry k, up to its
\* await.  A module that is absent, or has no prepare, makes the call throw a
\* TypeError inside the try block.
Prepare(k) ==
    /\ pc = "starting"
    /\ k \in NextPrepare(attempted, inFlight)
    /\ attempted' = Append(attempted, modulesToPrepare[k])
    /\ \E capable \in BOOLEAN :
         IF modulesToPrepare[k] \in DOMAIN moduleInstances /\ capable
         THEN /\ inFlight' = inFlight \cup {modulesToPrepare[k]}
              /\ UNCHANGED lastOutcome
         ELSE /\ lastOutcome' = "error"
              /\ prepareCatch("error") = "continue"
              /\ UNCHANGED inFlight
    /\ UNCHANGED <<input, config, modules, moduleInstances, state, pc,
                   criticalAt, renderCalls, renderOutcome, focusOutcome,
                   resolveCalls, rejectCalls, isReady,
                   constructWarnings, instanceKeys, facadeVars>>

\* core.ts:205-214: a prepare() in flight settles
PrepareSettled(name) ==
    /\ pc = "starting"
    /\ name \in inFlight
    /\ inFlight' = inFlight \ {name}
    /\ \E outcome \in {"ok", "error", "critical"} :
         /\ lastOutcome' = outcome
         /\ criticalAt' = IF outcome = "critical" /\ criticalAt = 0
                          THEN IndexOf(name) ELSE criticalAt
         /\ pc' = IF outcome # "ok" /\ prepareCatch(outcome) = "rethrow"
                  THEN "rejecting" ELSE "starting"
    /\ UNCHANGED <<input, config, modules, moduleInstances, state, attempted,
                   renderCalls, renderOutcome, focusOutcome, resolveCalls,
                   rejectCalls, isReady,
                   constructWarnings, instanceKeys, facadeVars>>

\* core.ts:78-96: start() has resolved; the timer is set
StartDone ==
    /\ pc = "starting"
    /\ startSettled(attempted, inFlight)
    /\ pc' = "timer"
    /\ UNCHANGED <<input, config, modules, moduleInstances, state, attempted,
                   inFlight, lastOutcome, criticalAt, renderCalls,
                   renderOutcome, focusOutcome, resolveCalls, rejectCalls,
                   isReady,
                   constructWarnings, instanceKeys, facadeVars>>

\* core.ts:82-83 and render() of core.ts:224-226: the timer fires.
\* this.moduleInstances.Renderer.render and this.config.data.blocks are
\* evaluated before the call; either throws a TypeError on undefined.
TimerFired ==
    /\ pc = "timer"
    /\ IF "Renderer" \in DOMAIN moduleInstances /\ config.data
       THEN /\ renderCalls' = renderCalls + 1
            /\ renderOutcome' = "pending"
            /\ pc' = "rendering"
       ELSE /\ renderOutcome' = "threw"
            /\ pc' = "stalled"
            /\ UNCHANGED renderCalls
    /\ UNCHANGED <<input, config, modules, moduleInstances, state, attempted,
                   inFlight, lastOutcome, criticalAt, focusOutcome,
                   resolveCalls, rejectCalls, isReady,
                   constructWarnings, instanceKeys, facadeVars>>

\* core.ts:83-95: render()'s promise settles; the focus step; onReady
RenderSettled ==
    /\ pc = "rendering"
    /\ \E result \in {"resolved", "rejected"}, focusThrows \in BOOLEAN :
         LET focusOk == /\ "Caret" \in DOMAIN moduleInstances
                        /\ "BlockManager" \in DOMAIN moduleInstances
                        /\ ~focusThrows
             tail == timerCallbackTail(result, config.autofocus, focusOk)
         IN  /\ renderOutcome' = result
             /\ focusOutcome' = tail.focus
             /\ resolveCalls' = resolveCalls + tail.onReady
             /\ rejectCalls' = rejectCalls + tail.onFail
             /\ isReady' = settle(settle(isReady, "rejected", tail.onFail),
                                  "resolved", tail.onReady)
             /\ pc' = tail.pc
    /\ UNCHANGED <<input, config, modules, moduleInstances, state, attempted,
                   inFlight, lastOutcome, criticalAt, renderCalls,
                   constructWarnings, instanceKeys, facadeVars>>

\* core.ts:98-105: the chain's catch handler
CatchHandler ==
    /\ pc = "rejecting"
    /\ rejectCalls' = rejectCalls + 1
    /\ isReady' = settle(isReady, "rejected", 1)
    /\ pc' = "failed"
    /\ UNCHANGED <<input, config, modules, moduleInstances, state, attempted,
                   inFlight, lastOutcome, criticalAt, renderCalls,
                   renderOutcome, focusOutcome, resolveCalls,
                   constructWarnings, instanceKeys, facadeVars>>

----------------------------------------------------------------------------
(* ModuleJS (part_000): the object handed to the caller                     *)

\* a promise.finally: the callback runs however the promise settles
thenAlways(promise) == promise # "pending"

\* promise.then(callback) (part_000:64): the callback runs when the promise
\* is fulfilled
thenReady(promise) == promise = "resolved"

\* exportAPI(Module), part_000:75-107, on an object with the own fields
\* `fields`: the exported field and destroy are assigned before the prototype
\* is set; Module.moduleInstances.API.methods throws a TypeError when the API
\* module is absent
exportAPI(instances, cfg, fields) ==
    [fields |-> fields \cup {"configuration", "destroy"},
     config |-> cfg,
     proto |-> IF "API" \in DOMAIN instances
               THEN "API.methods" ELSE "ModuleJS.prototype",
     threw |-> "API" \notin DOMAIN instances]

\* a call of a method the object does not own, such as one of the API
\* module's methods: found through the prototype set at part_000:103
delegatedCall(proto) == IF proto = "API.methods" THEN "ok" ELSE "TypeError"

\* a call of facade.destroy(): the field is there to call or it is not
destroyCall(fields) == IF "destroy" \in fields THEN "runs" ELSE "TypeError"

\* no module's disposal hook or removeAll throws
NoFail == [module |-> "none", op |-> "none"]

TeardownEvent(o, m) == [op |-> o, module |-> m]

\* the body of the forEach of part_000:79-84 for one module: the calls it
\* makes, the last of which may be the one that throws.  The modules of
\* hookless have no destroy function.
moduleCalls(name, hookless, fail) ==
    IF name \in hookless
    THEN <<"removeAll">>
    ELSE IF fail = TeardownEvent("destroy", name)
    THEN <<"destroy">>
    ELSE <<"destroy", "removeAll">>

\* whether the forEach body throws for this module
moduleThrows(name, hookless, fail) ==
    \/ fail = TeardownEvent("removeAll", name)
    \/ fail = TeardownEvent("destroy", name) /\ name \notin hookless

\* what the log keeps of the forEach body for one module: whether it has a
\* destroy function, the calls made on it, whether the last of them threw
moduleEntry(name, hookless, fail) ==
    [module |-> name,
     hook |-> name \notin hookless,
     calls |-> moduleCalls(name, hookless, fail),
     threw |-> moduleThrows(name, hookless, fail)]

\* a forEach whose removeAll sits inside the isFunction test
teardownModulesHooked(order, hookless, fail) ==
    [log |-> [i \in 1..Len(order) |->
                [module |-> order[i], hook |-> order[i] \notin hookless,
                 calls |-> IF order[i] \in hookless THEN <<>>
                           ELSE <<"destroy", "removeAll">>,
                 threw |-> FALSE]],
     completed |-> TRUE]

\* a forEach that catches what a module throws and goes on
teardownModulesTolerant(order, hookless, fail) ==
    [log |-> [i \in 1..Len(order) |-> moduleEntry(order[i], hookless, fail)],
     completed |-> TRUE]

\* the forEach of part_000:78-84 over the instances in order: what it did to
\* each module it reached, and whether it ran to its end.  An exception ends
\* it at the module that throws.
teardownModules(order, hookless, fail) ==
    LET thrower == {i \in 1..Len(order) : moduleThrows(order[i], hookless, fail)}
        reached == IF thrower = {} THEN Len(order)
                   ELSE CHOOSE i \in thrower : \A j \in thrower : i <= j
    IN  [log |-> [i \in 1..reached |-> moduleEntry(order[i], hookless, fail)],
         completed |-> thrower = {}]

\* what destroy() does to the object itself once the forEach has ended:
\* part_000:86 (release), 88-92 (strip), 94 (sever)
FacadeTeardown ==
    [module |-> "ModuleJS", hook |-> FALSE,
     calls |-> <<"release", "strip", "sever">>, threw |-> FALSE]

\* the same without the last step
FacadeTeardownNoSever ==
    [module |-> "ModuleJS", hook |-> FALSE,
     calls |-> <<"release", "strip">>, threw |-> FALSE]

\* destroy() that leaves the prototype as it is
destroyNoSever(order, hookless, fail, fields, proto, cfg) ==
    LET t == teardownModules(order, hookless, fail)
    IN  IF t.completed
        THEN [log |-> Append(t.log, FacadeTeardownNoSever),
              completed |-> TRUE, moduleRef |-> "null",
              fields |-> {}, proto |-> proto, config |-> NoConfig]
        ELSE [log |-> t.log, completed |-> FALSE, moduleRef |-> "held",
              fields |-> fields, proto |-> proto, config |-> cfg]

\* destroy, part_000:77-95: an exception of the forEach leaves the function
\* before Module = null, the deletes and Object.setPrototypeOf(this, null)
destroy(order, hookless, fail, fields, proto, cfg) ==
    LET t == teardownModules(order, hookless, fail)
    IN  IF t.completed
        THEN [log |-> Append(t.log, FacadeTeardown),
              completed |-> TRUE, moduleRef |-> "null",
              fields |-> {}, proto |-> "null", config |-> NoConfig]
        ELSE [log |-> t.log, completed |-> FALSE, moduleRef |-> "held",
              fields |-> fields, proto |-> proto, config |-> cfg]

\* which modules have no disposal hook
HooklessChoices == {{}, {"API", "Paste"}}

\* which call throws during destroy(), if any: of a module in the middle
\* of the file order, or of the last one
FailPoints ==
    {NoFail, TeardownEvent("destroy", "Paste"),
     TeardownEvent("removeAll", "Paste"), TeardownEvent("removeAll", "UI")}

\* what the caller holds: the object as the constructor left it, the object
\* with its exported surface, or the object stripped by destroy()
FacadeStatus ==
    IF facadeFields = {"isReady"} /\ facadeProto = "ModuleJS.prototype"
    THEN "absent"
    ELSE IF facadeFields = {"isReady", "configuration", "destroy"}
            /\ facadeProto = "API.methods"
    THEN "live"
    ELSE IF facadeFields = {} /\ facadeProto = "null"
    THEN "destroyed"
    ELSE "other"

coreVars == <<input, config, modules, moduleInstances, state, pc, attempted,
              inFlight, lastOutcome, criticalAt, renderCalls, renderOutcome,
              focusOutcome, resolveCalls, rejectCalls, isReady,
              constructWarnings, instanceKeys>>

\* part_000:64-67: the callback on Module.isReady: exportAPI, then the
\* configuration's onReady callback, which returns or throws
ExportAPI ==
    /\ facadeReady = "pending"
    /\ thenReady(isReady)
    /\ \E callbackThrows \in BOOLEAN :
         \E e \in {exportAPI(moduleInstances, config, facadeFields)} :
             /\ facadeFields' = e.fields
             /\ facadeConfig' = e.config
             /\ facadeProto' = e.proto
             /\ facadeReady' = IF e.threw \/ callbackThrows
                               THEN "rejected" ELSE "resolved"
    /\ UNCHANGED <<coreVars, moduleRef, teardownLog>>

\* part_000:64: a rejected Module.isReady rejects the promise derived from it
ReadyRejected ==
    /\ facadeReady = "pending"
    /\ isReady = "rejected"
    /\ facadeReady' = "rejected"
    /\ UNCHANGED <<coreVars, facadeFields, facadeProto, facadeConfig,
                   moduleRef, teardownLog>>

\* part_000:77-95: the caller calls the object's destroy()
Destroy ==
    /\ destroyCall(facadeFields) = "runs"
    /\ \E hookless \in HooklessChoices, fail \in FailPoints :
         \E d \in {destroy(instanceKeys, hookless, fail,
                           facadeFields, facadeProto, facadeConfig)} :
             /\ teardownLog' = d.log
             /\ moduleRef' = d.moduleRef
             /\ facadeFields' = d.fields
             /\ facadeProto' = d.proto
             /\ facadeConfig' = d.config
    /\ UNCHANGED <<coreVars, facadeReady>>

Next ==
    \/ Configure
    \/ InitModules
    \/ \E k \in 1..Len(modulesToPrepare) : Prepare(k)
    \/ \E name \in ModuleNames : PrepareSettled(name)
    \/ StartDone
    \/ TimerFired
    \/ RenderSettled
    \/ CatchHandler
    \/ ExportAPI
    \/ ReadyRejected
    \/ Destroy

Spec == Init /\ [][Next]_vars

TypeOK ==
    /\ input \in Inputs
    /\ pc \in {"created", "validated", "starting", "timer", "rendering",
               "ready", "rejecting", "failed", "stalled"}
    /\ DOMAIN moduleInstances \subseteq ModuleNames
    /\ DOMAIN state = DOMAIN moduleInstances
    /\ inFlight \subseteq ModuleNames
    /\ lastOutcome \in {"none", "ok", "error", "critical"}
    /\ focusOutcome \in {"none", "ok", "threw"}
    /\ renderOutcome \in {"none", "pending", "threw", "rejected", "resolved"}
    /\ isReady \in {"pending", "resolved", "rejected"}
    /\ facadeReady \in {"pending", "resolved", "rejected"}
    /\ facadeFields \subseteq {"isReady", "configuration", "destroy"}
    /\ facadeProto \in {"ModuleJS.prototype", "API.methods", "null"}
    /\ moduleRef \in {"held", "null"}

----------------------------------------------------------------------------
(* Properties                                                               *)

\* no callback of the constructor's chain, and no timer, is pending
PipelineDone == pc \in {"ready", "failed", "stalled"}

\* C1: for every configuration that passes validation the readiness future
\* settles: once nothing of the startup pipeline is pending any more,
\* isReady is resolved or rejected
C1_ReadinessSettles ==
    (validate(configuration(input)) = "ok" /\ PipelineDone) => isReady # "pending"

\* C2: the readiness signal is settled at most once: onReady and onFail are
\* never both called, and neither is called twice
C2_SettledAtMostOnce ==
    /\ resolveCalls + rejectCalls <= 1
    /\ isReady = "resolved" <=> resolveCalls = 1
    /\ isReady = "rejected" <=> rejectCalls = 1

C2_Witness ==
    pc = "ready" /\ renderOutcome = "resolved" /\ resolveCalls = 1

\* C3: with holderId and holder both set, validate() fails, readiness
\* rejects, and no module is ever constructed, prepared or rendered
C3_ExclusiveMountFails ==
    (input.obj /\ truthy(input.holderId) /\ truthy(input.holder)) =>
        /\ pc \in {"created", "rejecting", "failed"}
        /\ pc = "rejecting" => ENABLED CatchHandler
        /\ pc = "failed" => isReady = "rejected"
        /\ resolveCalls = 0
        /\ DOMAIN moduleInstances = {}
        /\ attempted = <<>>
        /\ inFlight = {}
        /\ renderCalls = 0
        /\ renderOutcome = "none"

C3_Witness ==
    /\ input.obj /\ input.holderId = "idExisting" /\ input.holder = "element"
    /\ pc = "failed"
    /\ isReady = "rejected"

\* a mount target that does not resolve (through either field), or a mount
\* value that is neither an identifier string nor an element
BadMountTarget(cfg) ==
    \/ cfg.holderId = "idMissing"
    \/ cfg.holder = "idMissing"
    \/ truthy(cfg.holder) /\ ~isString(cfg.holder) /\ ~isElement(cfg.holder)

\* C4: a configuration whose mount target does not resolve, or whose mount
\* value is of the wrong kind, is rejected by validate() before any module
\* is constructed, and readiness rejects
C4_BadMountRejected ==
    BadMountTarget(configuration(input)) =>
        /\ pc \in {"created", "rejecting", "failed"}
        /\ pc = "failed" => isReady = "rejected"
        /\ DOMAIN moduleInstances = {}

\* C5: after init() the peer view of every surviving module X maps exactly
\* the names of the other surviving modules to their instances, and never X
C5_PeerViews ==
    /\ DOMAIN state = DOMAIN moduleInstances
    /\ \A X \in DOMAIN moduleInstances :
         /\ DOMAIN state[X] = (DOMAIN moduleInstances) \ {X}
         /\ X \notin DOMAIN state[X]
         /\ \A Y \in DOMAIN state[X] : state[X][Y] = moduleInstances[Y]

C5_Witness ==
    /\ pc = "starting"
    /\ Cardinality(DOMAIN moduleInstances) >= 2
    /\ "Paste" \notin DOMAIN moduleInstances

\* the callbacks of start() have run for a prefix of the allow-list, in its
\* order, each once
C6_InOrder ==
    /\ Len(attempted) <= Len(modulesToPrepare)
    /\ \A i \in 1..Len(attempted) : attempted[i] = modulesToPrepare[i]

\* after a non-fatal failure of module k the callback of module k+1 is next
C6_Continues ==
    (pc = "starting" /\ lastOutcome = "error" /\ inFlight = {}
        /\ Len(attempted) < Len(modulesToPrepare))
    => ENABLED Prepare(Len(attempted) + 1)

\* without a fatal error and with a successful render, readiness resolves
C6_StillResolves ==
    (PipelineDone /\ criticalAt = 0 /\ renderOutcome = "resolved")
    => isReady = "resolved"

\* C6: start() attempts prepare() on the allow-listed modules in the
\* declared order, each at most once; a non-fatal failure of module k does
\* not keep module k+1 from being attempted; and without a fatal error and
\* with a successful render, readiness resolves
C6_StartOrder == C6_InOrder /\ C6_Continues /\ C6_StillResolves

\* C7: at most one prepare() is in flight: it is that of the module the
\* chain reached last, and every earlier one has settled
C7_OnePrepareInFlight ==
    /\ Cardinality(inFlight) <= 1
    /\ inFlight # {} => inFlight = {attempted[Len(attempted)]}

C7_Witness ==
    /\ inFlight = {"UI"}
    /\ attempted = <<"Tools", "UI">>
    /\ lastOutcome = "ok"

\* C8: once a prepare() has thrown a CriticalError, no later prepare() is
\* invoked, the render phase is not entered, and readiness rejects
C8_FatalHalts ==
    criticalAt # 0 =>
        /\ Len(attempted) = criticalAt
        /\ inFlight = {}
        /\ renderCalls = 0
        /\ renderOutcome = "none"
        /\ resolveCalls = 0
        /\ pc \in {"rejecting", "failed"}
        /\ pc = "rejecting" => ENABLED CatchHandler
        /\ pc = "failed" => isReady = "rejected"

C8_Witness ==
    /\ criticalAt = 1
    /\ attempted = <<"Tools">>
    /\ "BlockManager" \in DOMAIN moduleInstances
    /\ pc = "failed"
    /\ isReady = "rejected"

\* C9: a failed render (render() throws or its future rejects) takes the
\* lifecycle to Failed and rejects readiness; a successful render resolves
\* readiness exactly once
C9_RenderOutcomeSettles ==
    /\ (PipelineDone /\ renderOutcome \in {"threw", "rejected"})
         => (pc = "failed" /\ isReady = "rejected")
    /\ (PipelineDone /\ renderOutcome = "resolved")
         => (isReady = "resolved" /\ resolveCalls = 1)

\* C10: with auto-focus requested and render succeeded, a failing focus step
\* does not fail the phase: readiness is still resolved; without auto-focus
\* the focus step is never performed
C10_FocusBestEffort ==
    /\ (PipelineDone /\ config.autofocus /\ renderOutcome = "resolved")
         => isReady = "resolved"
    /\ ~config.autofocus => focusOutcome = "none"

\* a configuration that names only a mount target, which exists
OnlyMountTarget(c) ==
    \/ ~c.obj /\ c.value = "idExisting"
    \/ /\ c.obj /\ ~c.data /\ ~c.autofocus
       /\ \/ c.holderId = "absent" /\ c.holder \in {"idExisting", "element"}
          \/ c.holderId = "idExisting" /\ c.holder = "absent"

\* C11: for a configuration that names only an existing mount target, with
\* every module constructing and no fatal prepare error, readiness resolves
\* and the facade becomes live, its configuration being the effective one
C11_MountOnlyBecomesLive ==
    (/\ OnlyMountTarget(input)
     /\ \A i \in 1..Len(modules) : ~modules[i].throws
     /\ criticalAt = 0
     /\ PipelineDone
     /\ ~ENABLED ExportAPI
     /\ teardownLog = <<>>)
    => (isReady = "resolved" /\ FacadeStatus = "live" /\ facadeConfig = config)

\* C12: once destroy() has completed the facade has no own field left, its
\* delegation link is severed, and a delegated method call and a call of
\* destroy both fail
C12_DestroyedIsInert ==
    moduleRef = "null" =>
        /\ facadeFields = {}
        /\ facadeProto = "null"
        /\ delegatedCall(facadeProto) = "TypeError"
        /\ destroyCall(facadeFields) = "TypeError"

C12_Witness ==
    /\ moduleRef = "null"
    /\ "API" \in DOMAIN moduleInstances
    /\ facadeReady = "resolved"
    /\ FacadeStatus = "destroyed"

\* C13: while the core's readiness is pending or rejected the facade surface
\* is absent: no exported field, no destroy, no delegation
C13_FacadeOnlyAfterReady ==
    isReady \in {"pending", "rejected"} =>
        /\ FacadeStatus = "absent"
        /\ facadeConfig = NoConfig
        /\ delegatedCall(facadeProto) = "TypeError"
        /\ destroyCall(facadeFields) = "TypeError"
        /\ teardownLog = <<>>

C13_Witness ==
    /\ isReady = "rejected"
    /\ facadeReady = "rejected"
    /\ criticalAt # 0
    /\ "API" \in DOMAIN moduleInstances
    /\ FacadeStatus = "absent"

\* C14: the readiness future handed to the caller is rejected only by a
\* configuration error of validate() or a fatal error of a prepare()
C14_OnlyFatalRejects ==
    facadeReady = "rejected" =>
        (validate(configuration(input)) # "ok" \/ criticalAt # 0)

\* C15: the facade is always absent, live or destroyed; it only goes from
\* absent to live and from live to destroyed; once destroyed, a further
\* call on it, a second destroy() included, fails
C15_FacadeLifecycle ==
    /\ [](/\ FacadeStatus \in {"absent", "live", "destroyed"}
          /\ FacadeStatus = "destroyed" =>
               /\ delegatedCall(facadeProto) = "TypeError"
               /\ destroyCall(facadeFields) = "TypeError")
    /\ [][\/ FacadeStatus' = FacadeStatus
          \/ FacadeStatus = "absent" /\ FacadeStatus' = "live"
          \/ FacadeStatus = "live" /\ FacadeStatus' = "destroyed"]_vars

\* init() has run
InitDone == pc \notin {"created", "validated"} /\ validate(config) = "ok"

\* C16: a module whose constructor throws is omitted with a warning; every
\* module whose constructor succeeds is in moduleInstances; the omitted name
\* is in no peer view; init() does not fail
C16_ThrowingConstructorOmitted ==
    InitDone =>
        /\ \A i \in 1..Len(modules) :
             IF modules[i].throws
             THEN \E w \in 1..Len(constructWarnings) :
                    constructWarnings[w] = modules[i].displayName
             ELSE modules[i].displayName \in DOMAIN moduleInstances
        /\ \A n \in ModuleNames :
             (\A i \in 1..Len(modules) :
                 modules[i].displayName = n => modules[i].throws)
             => /\ n \notin DOMAIN moduleInstances
                /\ \A X \in DOMAIN state : n \notin DOMAIN state[X]
        /\ criticalAt = 0 => pc \notin {"rejecting", "failed"}

C16_Witness ==
    /\ pc = "starting"
    /\ constructWarnings = <<"Paste">>
    /\ "Paste" \notin DOMAIN moduleInstances
    /\ "UI" \in DOMAIN moduleInstances
    /\ "Paste" \notin DOMAIN state["UI"]

\* C17: of two factories with the same name the registry holds the instance
\* of the one registered last, and a warning is logged when the existing
\* entry is overwritten
C17_DuplicateWarned ==
    InitDone =>
        \A i, j \in 1..Len(modules) :
            (/\ i < j
             /\ modules[i].displayName = modules[j].displayName
             /\ ~modules[i].throws /\ ~modules[j].throws)
            => /\ moduleInstances[modules[j].displayName] = j
               /\ \E w \in 1..Len(constructWarnings) :
                    constructWarnings[w] = modules[j].displayName

\* C18: Renderer.render is invoked at most once, only after every callback
\* of start() has run and settled and the timer has fired, and never when
\* validation or start() failed
C18_RenderOnceAfterStart ==
    /\ renderCalls <= 1
    /\ renderCalls = 1 =>
         /\ validate(config) = "ok"
         /\ criticalAt = 0
         /\ attempted = modulesToPrepare
         /\ inFlight = {}
         /\ pc \in {"rendering", "ready", "stalled"}
         /\ rejectCalls = 0

C18_Witness ==
    /\ renderCalls = 1
    /\ pc = "rendering"
    /\ lastOutcome = "error"

\* C19: a destroy() that completes has called, on every surviving module in
\* turn, its disposal hook once if it has one and its removeAll once, all
\* before the facade's fields are stripped and its delegation severed
C19_TeardownBeforeStrip ==
    moduleRef = "null" =>
        /\ Len(teardownLog) = Len(instanceKeys) + 1
        /\ {instanceKeys[i] : i \in 1..Len(instanceKeys)} = DOMAIN moduleInstances
        /\ \A i \in 1..Len(instanceKeys) :
             /\ teardownLog[i].module = instanceKeys[i]
             /\ \A j \in 1..Len(instanceKeys) :
                  instanceKeys[j] = instanceKeys[i] => j = i
             /\ teardownLog[i].calls =
                  IF teardownLog[i].hook THEN <<"destroy", "removeAll">>
                  ELSE <<"removeAll">>
             /\ ~teardownLog[i].threw
        /\ teardownLog[Len(teardownLog)].module = "ModuleJS"
        /\ teardownLog[Len(teardownLog)].calls = <<"release", "strip", "sever">>

C19_Witness ==
    /\ moduleRef = "null"
    /\ Len(teardownLog) = Len(ModuleOrder) + 1
    /\ ~teardownLog[1].hook
    /\ teardownLog[2].hook

\* C20: when a disposal hook or a removeAll throws, destroy() ends at that
\* module: the modules before it are torn down, those after it are not
\* touched, no field is stripped, the delegation stays, and destroy can be
\* called again
C20_DestroyAbortsAtThrow ==
    \A i \in 1..Len(teardownLog) :
        teardownLog[i].threw =>
            /\ i = Len(teardownLog)
            /\ i <= Len(instanceKeys)
            /\ \A j \in 1..i : teardownLog[j].module = instanceKeys[j]
            /\ \A j \in 1..(i - 1) :
                 teardownLog[j].calls =
                    IF teardownLog[j].hook THEN <<"destroy", "removeAll">>
                    ELSE <<"removeAll">>
            /\ moduleRef = "held"
            /\ facadeFields = {"isReady", "configuration", "destroy"}
            /\ facadeConfig = config
            /\ facadeProto = IF "API" \in DOMAIN moduleInstances
                             THEN "API.methods" ELSE "ModuleJS.prototype"
            /\ destroyCall(facadeFields) = "runs"
            /\ ENABLED Destroy

C20_Witness ==
    /\ Len(teardownLog) > 1
    /\ Len(teardownLog) < Len(instanceKeys)
    /\ teardownLog[Len(teardownLog)].threw
    /\ teardownLog[Len(teardownLog)].calls = <<"destroy">>
    /\ FacadeStatus = "live"

====
